---- MODULE Spec2Model ----
(***************************************************************************)
(* Model of pricealert.py: the fetcher, the shop extractors                *)
(* check_galaxus / check_baechli / check_intersport / check_primal /       *)
(* check_transa, the name lookup _load_check_fn and the reporting loop     *)
(* main.                                                                   *)
(*                                                                         *)
(* Conventions.                                                            *)
(*  - A Python Optional is a sequence of length at most one: <<>> is None, *)
(*    <<v>> is the value v.                                                *)
(*  - A float is an integer number of hundredths (49.00 is 4900); the       *)
(*    page texts of the model carry at most two fractional digits.         *)
(*  - A call returns [tag |-> "ok", ...] or [tag |-> "raise", exc |-> e].   *)
(*  - A page is what one URL answers: the HTTP status, the elements the    *)
(*    HTML extractors look for and the raw text split into lines.          *)
(*  - The character "~" stands for U+00A0, the non-breaking space.         *)
(***************************************************************************)
EXTENDS Integers, Sequences, FiniteSets, TLC

VARIABLES
    web,        \* URL -> page: the response requests.get gives for the URL
    shops,      \* config['shops']: shop id -> [name, check_func]
    products,   \* config['products']: sequence of [name, shops]
    pc,         \* position of main
    exc,        \* the exception that left main, "" when none
    k,          \* position in config['shops'].items() while loading
    i,          \* index of the current product
    j,          \* index of the current (shop_id, url) of the product
    prices,     \* Optional: the pair the extractor returned
    trace,      \* events of the current invocation: calls, fetches, prints
    run,        \* number of the current invocation of main
    prev,       \* outcome of the previous invocation of main
    ret         \* Optional: result of a directly applied extractor

vars == <<web, shops, products, pc, exc, k, i, j, prices, trace, run, prev, ret>>

mainvars == <<shops, products, pc, exc, k, i, j, prices, trace, run, prev>>

----------------------------------------------------------------------------
(* Bounds of the model. *)

MaxProducts == 2
MaxRuns == 2
MaxLines == 3
MaxChildren == 2

----------------------------------------------------------------------------
(* Python values. *)

None == <<>>

Some(v) == <<v>>

Ok(c, r) == [tag |-> "ok", cur |-> c, reg |-> r]

Raise(e) == [tag |-> "raise", exc |-> e]

IsOk(r) == r.tag = "ok"

NBSP == "~"

(* The Python slice s[a-1:b] of a string: positions a..b, clipped. *)
Slice(s, a, b) ==
    IF a > b \/ a > Len(s) THEN ""
    ELSE SubSeq(s, a, IF b > Len(s) THEN Len(s) ELSE b)

Ch(s, n) == Slice(s, n, n)

Digits == {"0", "1", "2", "3", "4", "5", "6", "7", "8", "9"}

Whitespace == {" ", "\t"}

DigitVal(c) ==
    CASE c = "0" -> 0 [] c = "1" -> 1 [] c = "2" -> 2 [] c = "3" -> 3
      [] c = "4" -> 4 [] c = "5" -> 5 [] c = "6" -> 6 [] c = "7" -> 7
      [] c = "8" -> 8 [] c = "9" -> 9

AllDigits(s) == \A n \in 1..Len(s) : Ch(s, n) \in Digits

RECURSIVE NatVal(_)
NatVal(s) ==
    IF Len(s) = 0 THEN 0
    ELSE 10 * NatVal(Slice(s, 1, Len(s) - 1)) + DigitVal(Ch(s, Len(s)))

RECURSIVE Strip(_)
Strip(s) ==
    IF Len(s) > 0 /\ Ch(s, 1) \in Whitespace THEN Strip(Slice(s, 2, Len(s)))
    ELSE IF Len(s) > 0 /\ Ch(s, Len(s)) \in Whitespace
         THEN Strip(Slice(s, 1, Len(s) - 1))
         ELSE s

(* Position of the first occurrence of character c in s, 0 when none. *)
RECURSIVE IndexFrom(_, _, _)
IndexFrom(s, c, n) ==
    IF n > Len(s) THEN 0
    ELSE IF Ch(s, n) = c THEN n
    ELSE IndexFrom(s, c, n + 1)

Index(s, c) == IndexFrom(s, c, 1)

(* Hundredths denoted by the fractional digits f (the first two count). *)
FracVal(f) ==
    IF Len(f) = 0 THEN 0
    ELSE IF Len(f) = 1 THEN 10 * DigitVal(Ch(f, 1))
    ELSE 10 * DigitVal(Ch(f, 1)) + DigitVal(Ch(f, 2))

(* float(s) for an unsigned decimal literal: digits, optional point, digits,
   at least one digit in all. *)
UnsignedFloat(s) ==
    LET p == Index(s, ".")
        ip == IF p = 0 THEN s ELSE Slice(s, 1, p - 1)
        fp == IF p = 0 THEN "" ELSE Slice(s, p + 1, Len(s))
    IN IF AllDigits(ip) /\ AllDigits(fp) /\ Len(ip) + Len(fp) > 0
       THEN Some(100 * NatVal(ip) + FracVal(fp))
       ELSE None

(* float(s): surrounding whitespace is dropped, one sign is allowed; None
   stands for the ValueError. *)
ParseFloat(s) ==
    LET t == Strip(s)
    IN IF Len(t) > 0 /\ Ch(t, 1) = "-"
       THEN LET u == UnsignedFloat(Slice(t, 2, Len(t)))
            IN IF u = None THEN None ELSE Some(0 - u[1])
       ELSE IF Len(t) > 0 /\ Ch(t, 1) = "+"
            THEN UnsignedFloat(Slice(t, 2, Len(t)))
            ELSE UnsignedFloat(t)

----------------------------------------------------------------------------
(* Pages. *)

U == "u"

(* A page with nothing on it; the extractors' inputs override fields. *)
EmptyPage ==
    [status |-> 200, amount |-> None, standard |-> None, itemprop |-> None,
     linethrough |-> None, summary |-> None, text |-> <<>>]

(* requests.get(url) followed by response.raise_for_status(). A status of 0
   stands for a transport failure, which requests.get raises itself. With
   raw the caller reads the text of the page, else its parsed elements; both
   are fields of the same page. *)
fetch(url) ==
    LET page == web[url]
    IN IF page.status = 0 THEN Raise("ConnectionError")
       ELSE IF page.status >= 400 /\ page.status < 600 THEN Raise("HTTPError")
       ELSE [tag |-> "ok", page |-> page]

(* check_galaxus; first a variant that hands the two numbers back in the
   opposite places. *)
check_galaxus_swapped(url) ==
    LET r == fetch(url)
    IN IF ~IsOk(r) THEN r
       ELSE LET soup == r.page
            IN IF soup.amount = None THEN Raise("AttributeError")
               ELSE IF ParseFloat(soup.amount[1]) = None THEN Raise("ValueError")
               ELSE IF soup.standard # None
                    THEN IF ParseFloat(soup.standard[1]) = None
                         THEN Raise("ValueError")
                         ELSE Ok(ParseFloat(soup.standard[1])[1],
                                 Some(ParseFloat(soup.amount[1])[1]))
                    ELSE Ok(ParseFloat(soup.amount[1])[1], None)

check_galaxus(url) ==
    LET r == fetch(url)
    IN IF ~IsOk(r) THEN r
       ELSE LET soup == r.page
            IN IF soup.amount = None THEN Raise("AttributeError")
               ELSE IF ParseFloat(soup.amount[1]) = None THEN Raise("ValueError")
               ELSE IF soup.standard # None
                    THEN IF ParseFloat(soup.standard[1]) = None
                         THEN Raise("ValueError")
                         ELSE Ok(ParseFloat(soup.amount[1])[1],
                                 Some(ParseFloat(soup.standard[1])[1]))
                    ELSE Ok(ParseFloat(soup.amount[1])[1], None)

check_baechli(url) ==
    LET r == fetch(url)
    IN IF ~IsOk(r) THEN r
       ELSE LET soup == r.page
            IN IF soup.amount = None THEN Raise("AttributeError")
               ELSE IF ParseFloat(soup.amount[1]) = None THEN Raise("ValueError")
               ELSE Ok(ParseFloat(soup.amount[1])[1], None)

(* The first direct child of the price element with the given tag. *)
RECURSIVE FindChild(_, _)
FindChild(children, tag) ==
    IF children = <<>> THEN None
    ELSE IF Head(children).tag = tag THEN Some(Head(children))
    ELSE FindChild(Tail(children), tag)

(* element.find(class_='amount') for the price element: the first amount
   among its descendants, in document order. *)
RECURSIVE FindAmount(_)
FindAmount(children) ==
    IF children = <<>> THEN None
    ELSE IF Head(children).amount # None THEN Head(children).amount
    ELSE FindAmount(Tail(children))

(* text.split('\xa0')[0] and [1]; the second is None when there is no
   separator. *)
SplitHead(text) ==
    IF Index(text, NBSP) = 0 THEN text
    ELSE Slice(text, 1, Index(text, NBSP) - 1)

SplitSecond(text) ==
    LET p == Index(text, NBSP)
        q == IndexFrom(text, NBSP, p + 1)
    IN IF p = 0 THEN None
       ELSE IF q = 0 THEN Some(Slice(text, p + 1, Len(text)))
       ELSE Some(Slice(text, p + 1, q - 1))

(* _get_price applied to the amount element found (None: not found); first
   a variant without the assertion on the currency. *)
_get_price_unchecked(amount) ==
    IF amount = None THEN Raise("AttributeError")
    ELSE IF SplitSecond(amount[1]) = None THEN Raise("IndexError")
    ELSE IF ParseFloat(SplitSecond(amount[1])[1]) = None THEN Raise("ValueError")
    ELSE [tag |-> "ok", val |-> ParseFloat(SplitSecond(amount[1])[1])[1]]

_get_price(amount) ==
    IF amount = None THEN Raise("AttributeError")
    ELSE IF SplitHead(amount[1]) # "CHF" THEN Raise("AssertionError")
    ELSE IF SplitSecond(amount[1]) = None THEN Raise("IndexError")
    ELSE IF ParseFloat(SplitSecond(amount[1])[1]) = None THEN Raise("ValueError")
    ELSE [tag |-> "ok", val |-> ParseFloat(SplitSecond(amount[1])[1])[1]]

check_intersport(url) ==
    LET r == fetch(url)
    IN IF ~IsOk(r) THEN r
       ELSE LET soup == r.page
            IN IF soup.summary = None THEN Raise("AttributeError")
               ELSE IF soup.summary[1] = None THEN Raise("AttributeError")
               ELSE LET children == soup.summary[1][1]
                        regular == FindChild(children, "del")
                        current == FindChild(children, "ins")
                    IN IF regular # None /\ current # None
                       THEN LET c == _get_price(current[1].amount)
                                g == _get_price(regular[1].amount)
                            IN IF ~IsOk(c) THEN c
                               ELSE IF ~IsOk(g) THEN g
                               ELSE Ok(c.val, Some(g.val))
                       ELSE LET c == _get_price(FindAmount(children))
                            IN IF ~IsOk(c) THEN c ELSE Ok(c.val, None)

(* re.findall(r'[\d\.]+', text)[0]: the first maximal run of digits and
   points, None when the text has none. *)
RunChars == Digits \cup {"."}

RECURSIVE RunEnd(_, _)
RunEnd(text, n) ==
    IF n < Len(text) /\ Ch(text, n + 1) \in RunChars THEN RunEnd(text, n + 1)
    ELSE n

RECURSIVE RunStart(_, _)
RunStart(text, n) ==
    IF n > Len(text) THEN 0
    ELSE IF Ch(text, n) \in RunChars THEN n
    ELSE RunStart(text, n + 1)

FirstRun(text) ==
    LET b == RunStart(text, 1)
    IN IF b = 0 THEN None ELSE Some(Slice(text, b, RunEnd(text, b)))

check_primal(url) ==
    LET r == fetch(url)
    IN IF ~IsOk(r) THEN r
       ELSE LET soup == r.page
            IN IF soup.itemprop = None THEN Raise("AttributeError")
               ELSE IF ParseFloat(soup.itemprop[1]) = None THEN Raise("ValueError")
               ELSE IF soup.linethrough # None
                    THEN LET m == FirstRun(soup.linethrough[1])
                         IN IF m = None THEN Raise("IndexError")
                            ELSE IF ParseFloat(m[1]) = None THEN Raise("ValueError")
                            ELSE Ok(ParseFloat(soup.itemprop[1])[1],
                                    Some(ParseFloat(m[1])[1]))
                    ELSE Ok(ParseFloat(soup.itemprop[1])[1], None)

----------------------------------------------------------------------------
(* check_transa: the pattern a line is matched against is, in words:
   any whitespace, the key base or promo, a colon, a space, a quote, CHF and
   a space, then any text free of quotes, then a quote and a comma ending
   the line. *)

RECURSIVE SkipSpace(_, _)
SkipSpace(line, n) ==
    IF n <= Len(line) /\ Ch(line, n) \in Whitespace THEN SkipSpace(line, n + 1)
    ELSE n

(* The key the line holds after its leading whitespace, "" when neither. *)
KeyAt(line, n) ==
    IF Slice(line, n, n + 3) = "base" THEN "base"
    ELSE IF Slice(line, n, n + 4) = "promo" THEN "promo"
    ELSE ""

(* re.match on one line: None, or the pair <<group(1), group(2)>>. The
   amount group holds no quote, so it ends at the first quote after the
   prefix, and that quote and a comma must end the line. *)
MatchLine(line) ==
    LET n == SkipSpace(line, 1)
        key == KeyAt(line, n)
        a == n + Len(key) + 7
        q == IndexFrom(line, "'", a)
    IN IF key = "" THEN None
       ELSE IF Slice(line, n + Len(key), a - 1) # ": 'CHF " THEN None
       ELSE IF q = 0 \/ q # Len(line) - 1 THEN None
       ELSE IF Ch(line, Len(line)) # "," THEN None
       ELSE Some(<<key, Slice(line, a, q - 1)>>)

(* The loop over the matches, in line order: the dict after the lines, or
   the ValueError of the first amount float() rejects. A dict is a function
   from its keys. First a variant that keeps the first amount of a key. *)
RECURSIVE ScanFirstWins(_, _)
ScanFirstWins(lines, d) ==
    IF lines = <<>> THEN [tag |-> "ok", dict |-> d]
    ELSE LET m == MatchLine(Head(lines))
         IN IF m = None THEN ScanFirstWins(Tail(lines), d)
            ELSE IF ParseFloat(m[1][2]) = None THEN Raise("ValueError")
            ELSE IF m[1][1] \in DOMAIN d THEN ScanFirstWins(Tail(lines), d)
            ELSE ScanFirstWins(Tail(lines),
                     [x \in DOMAIN d \cup {m[1][1]} |->
                         IF x = m[1][1] THEN ParseFloat(m[1][2])[1] ELSE d[x]])

RECURSIVE Scan(_, _)
Scan(lines, d) ==
    IF lines = <<>> THEN [tag |-> "ok", dict |-> d]
    ELSE LET m == MatchLine(Head(lines))
         IN IF m = None THEN Scan(Tail(lines), d)
            ELSE IF ParseFloat(m[1][2]) = None THEN Raise("ValueError")
            ELSE Scan(Tail(lines),
                     [x \in DOMAIN d \cup {m[1][1]} |->
                         IF x = m[1][1] THEN ParseFloat(m[1][2])[1] ELSE d[x]])

check_transa(url) ==
    LET r == fetch(url)
    IN IF ~IsOk(r) THEN r
       ELSE LET s == Scan(r.page.text, <<>>)
            IN IF ~IsOk(s) THEN s
               ELSE IF "promo" \notin DOMAIN s.dict THEN Raise("KeyError")
               ELSE Ok(s.dict["promo"],
                       IF "base" \in DOMAIN s.dict THEN Some(s.dict["base"])
                       ELSE None)

----------------------------------------------------------------------------
(* The extractors applied directly to one page. *)

SeqsUpTo(S, n) == UNION {[1..m -> S] : m \in 0..n}

Statuses == {200, 404}

(* content attributes of the meta tags *)
Contents == {"49", "72.4", "49.00", "0", "-5", "abc", ""}

OptionalOf(S) == {None} \cup {Some(x) : x \in S}

GalaxusPages ==
    {[EmptyPage EXCEPT !.status = st, !.amount = a, !.standard = r] :
        st \in Statuses, a \in OptionalOf(Contents), r \in OptionalOf(Contents)}

(* texts of an element of class amount *)
AmountTexts == {"CHF~379.00", "CHF~299.90", "EUR~379.00", "CHF~abc", "CHF"}

PriceChildren ==
    [tag : {"del", "ins", "span"}, amount : OptionalOf(AmountTexts)]

IntersportPages ==
    {[EmptyPage EXCEPT !.summary = sm] :
        sm \in {None, Some(None)}
               \cup {Some(Some(c)) : c \in SeqsUpTo(PriceChildren, MaxChildren)}}

(* lines of the raw text of a transa page *)
TransaLines ==
    {"  promo: 'CHF 629.90',", "  promo: 'CHF 379.90',",
     "  base: 'CHF 899.90',", "  base: '',", "  base: 'CHF ',",
     "  savings: 'CHF 270.00',", "\tbase: 'CHF 100',", "  promo: 'CHF 10.00'"}

TransaPages ==
    {[EmptyPage EXCEPT !.text = t] : t \in SeqsUpTo(TransaLines, MaxLines)}

(* main is not running *)
NoMain ==
    /\ shops = <<>>
    /\ products = <<>>
    /\ pc = "none"
    /\ exc = ""
    /\ k = 0
    /\ i = 0
    /\ j = 0
    /\ prices = None
    /\ trace = <<>>
    /\ run = 0
    /\ prev = None

InitGalaxus ==
    /\ web \in [{U} -> GalaxusPages]
    /\ ret = None
    /\ NoMain

ApplyGalaxus ==
    /\ ret = None
    /\ ret' = Some(check_galaxus(U))
    /\ UNCHANGED <<web, mainvars>>

SpecGalaxus == InitGalaxus /\ [][ApplyGalaxus]_vars

InitIntersport ==
    /\ web \in [{U} -> IntersportPages]
    /\ ret = None
    /\ NoMain

ApplyIntersport ==
    /\ ret = None
    /\ ret' = Some(check_intersport(U))
    /\ UNCHANGED <<web, mainvars>>

SpecIntersport == InitIntersport /\ [][ApplyIntersport]_vars

InitTransa ==
    /\ web \in [{U} -> TransaPages]
    /\ ret = None
    /\ NoMain

ApplyTransa ==
    /\ ret = None
    /\ ret' = Some(check_transa(U))
    /\ UNCHANGED <<web, mainvars>>

SpecTransa == InitTransa /\ [][ApplyTransa]_vars

----------------------------------------------------------------------------
(* The module namespace and the configuration. *)

Extractors ==
    {"check_galaxus", "check_baechli", "check_intersport", "check_primal",
     "check_transa"}

(* The names globals() holds once the module is loaded. *)
GlobalNames ==
    Extractors \cup
    {"re", "sys", "Optional", "Tuple", "BeautifulSoup", "docopt", "requests",
     "yaml", "USER_AGENT", "fetch", "_load_check_fn", "main",
     "__name__", "__doc__", "__file__", "__builtins__"}

(* A value of shop['check_func']: the configured string, or the object a
   global name is bound to (named by that global). *)
Str(v) == [kind |-> "str", v |-> v]

Obj(v) == [kind |-> "obj", v |-> v]

(* globals().get(key): None unless key is a string naming a global. *)
GlobalsGet(key) ==
    IF key.kind = "str" /\ key.v \in GlobalNames THEN Some(Obj(key.v))
    ELSE None

(* order of config['shops'].items() *)
ShopOrder == <<"s1", "s2">>

ShopIds == {ShopOrder[n] : n \in DOMAIN ShopOrder}

DisplayName(id) == IF id = "s1" THEN "Shop One" ELSE "Shop Two"

(* check_func strings a configuration may carry *)
ConfigNames ==
    {"check_galaxus", "check_transa", "fetch", "USER_AGENT", "check_foo"}

URLs == {"u_sale", "u_zero", "u_404"}

(* What each URL answers, the same at every request: a page with a reduced
   price in its meta tags and a single promo price in its text, a page
   whose standard amount is 0 and whose text has no price, and a page that
   is not found. *)
WebSample ==
    [u \in URLs |->
        CASE u = "u_sale" ->
                [EmptyPage EXCEPT !.amount = Some("49"),
                                  !.standard = Some("72.4"),
                                  !.text = <<"  base: '',",
                                             "  promo: 'CHF 379.90',">>]
          [] u = "u_zero" ->
                [EmptyPage EXCEPT !.amount = Some("49"),
                                  !.standard = Some("0"),
                                  !.text = <<"price: {", "},">>]
          [] u = "u_404" -> [EmptyPage EXCEPT !.status = 404]]

ProductName(n) ==
    IF n = 1 THEN "Widget" ELSE IF n = 2 THEN "Gadget" ELSE "Gizmo"

(* product['shops'].items(): (shop_id, url) pairs with distinct shop ids *)
Entries ==
    {es \in SeqsUpTo(ShopIds \X URLs, Cardinality(ShopIds)) :
        \A a, b \in DOMAIN es : a # b => es[a][1] # es[b][1]}

----------------------------------------------------------------------------
(* Events of one invocation of main. *)

Event(e, s, t, n) == [e |-> e, s |-> s, t |-> t, n |-> n]

CallEv(f, url) == Event("call", f, url, 0)

FetchEv(url) == Event("fetch", url, "", 0)

(* print('Checking {}:'.format(name)) *)
HeaderEv(name) == Event("header", name, "", 0)

(* print('  {}: {:.2f} CHF'.format(name, cur), end='') *)
ShopEv(name, cur) == Event("shop", name, "", cur)

(* print(' (statt {:.2f} CHF)'.format(reg)) *)
StattEv(reg) == Event("statt", "", "", reg)

(* print() ending a shop line, print() after a product *)
NlEv == Event("nl", "", "", 0)

BlankEv == Event("blank", "", "", 0)

PrintKinds == {"header", "shop", "statt", "nl", "blank"}

IsPrint(ev) == ev.e \in PrintKinds

(* what the invocation has written to standard output *)
Out(tr) == SelectSeq(tr, IsPrint)

(* An object that is no price pair: indexing it with 0 raises. *)
Soup == [tag |-> "ok", cur |-> 0, reg |-> None, soup |-> TRUE]

IsPair(r) == "soup" \notin DOMAIN r

(* shop['check_func'](url): the events of the call and what it returns *)
CallObj(f, url) ==
    IF f.kind # "obj" THEN [res |-> Raise("TypeError"), evs |-> <<>>]
    ELSE CASE f.v = "check_galaxus" ->
                [res |-> check_galaxus(url), evs |-> <<FetchEv(url)>>]
           [] f.v = "check_baechli" ->
                [res |-> check_baechli(url), evs |-> <<FetchEv(url)>>]
           [] f.v = "check_intersport" ->
                [res |-> check_intersport(url), evs |-> <<FetchEv(url)>>]
           [] f.v = "check_primal" ->
                [res |-> check_primal(url), evs |-> <<FetchEv(url)>>]
           [] f.v = "check_transa" ->
                [res |-> check_transa(url), evs |-> <<FetchEv(url)>>]
           [] f.v = "fetch" ->
                [res |-> IF IsOk(fetch(url)) THEN Soup ELSE fetch(url),
                 evs |-> <<FetchEv(url)>>]
           [] f.v = "BeautifulSoup" -> [res |-> Soup, evs |-> <<>>]
           [] f.v = "docopt" ->
                [res |-> Raise("DocoptLanguageError"), evs |-> <<>>]
           [] OTHER -> [res |-> Raise("TypeError"), evs |-> <<>>]

----------------------------------------------------------------------------
(* main *)

Init ==
    /\ web = WebSample
    /\ \E f \in [ShopIds -> ConfigNames] :
          shops = [id \in ShopIds |->
                      [name |-> DisplayName(id), check_func |-> Str(f[id])]]
    /\ \E es \in SeqsUpTo(Entries, MaxProducts) :
          products = [n \in DOMAIN es |->
                         [name |-> ProductName(n), shops |-> es[n]]]
    /\ pc = "load"
    /\ exc = ""
    /\ k = 1
    /\ i = 1
    /\ j = 1
    /\ prices = None
    /\ trace = <<>>
    /\ run = 1
    /\ prev = None
    /\ ret = None

(* One step of the comprehension that builds shops: _load_check_fn on the
   k-th shop of the configuration. The shop dict of the configuration is
   the one that is changed and kept. A variant that leaves an unresolved
   name for the first use follows. *)
LoadShopDeferred ==
    /\ pc = "load"
    /\ LET id == ShopOrder[k]
           func == GlobalsGet(shops[id].check_func)
       IN /\ shops' = IF func = None THEN shops
                      ELSE [shops EXCEPT ![id].check_func = func[1]]
          /\ exc' = exc
          /\ pc' = IF k = Len(ShopOrder) THEN "product" ELSE "load"
          /\ k' = k + 1
    /\ UNCHANGED <<web, products, i, j, prices, trace, run, prev, ret>>

LoadShop ==
    /\ pc = "load"
    /\ LET id == ShopOrder[k]
           func == GlobalsGet(shops[id].check_func)
       IN IF func = None
          THEN /\ pc' = "raised"
               /\ exc' = "ValueError: Check func not found"
               /\ UNCHANGED <<shops, k>>
          ELSE /\ shops' = [shops EXCEPT ![id].check_func = func[1]]
               /\ pc' = IF k = Len(ShopOrder) THEN "product" ELSE "load"
               /\ k' = k + 1
               /\ exc' = exc
    /\ UNCHANGED <<web, products, i, j, prices, trace, run, prev, ret>>

(* for product in config['products']: print the header *)
Header ==
    /\ pc = "product"
    /\ i <= Len(products)
    /\ trace' = Append(trace, HeaderEv(products[i].name))
    /\ j' = 1
    /\ pc' = "entry"
    /\ UNCHANGED <<web, shops, products, exc, k, i, prices, run, prev, ret>>

(* the product loop is exhausted: main returns *)
Return ==
    /\ pc = "product"
    /\ i > Len(products)
    /\ pc' = "done"
    /\ UNCHANGED <<web, shops, products, exc, k, i, j, prices, trace, run,
                   prev, ret>>

(* prices = shop['check_func'](url); a variant that skips a failing shop
   follows. *)
CallCheckIsolated ==
    /\ pc = "entry"
    /\ j <= Len(products[i].shops)
    /\ LET shop == shops[products[i].shops[j][1]]
           url == products[i].shops[j][2]
           c == CallObj(shop.check_func, url)
       IN /\ trace' = Append(trace, CallEv(shop.check_func.v, url)) \o c.evs
          /\ IF IsOk(c.res)
             THEN /\ prices' = Some(c.res)
                  /\ pc' = "print"
                  /\ j' = j
             ELSE /\ prices' = None
                  /\ pc' = "entry"
                  /\ j' = j + 1
          /\ exc' = exc
    /\ UNCHANGED <<web, shops, products, k, i, run, prev, ret>>

CallCheck ==
    /\ pc = "entry"
    /\ j <= Len(products[i].shops)
    /\ LET shop == shops[products[i].shops[j][1]]
           url == products[i].shops[j][2]
           c == CallObj(shop.check_func, url)
       IN /\ trace' = Append(trace, CallEv(shop.check_func.v, url)) \o c.evs
          /\ IF IsOk(c.res)
             THEN /\ prices' = Some(c.res)
                  /\ pc' = "print"
                  /\ exc' = exc
             ELSE /\ prices' = None
                  /\ pc' = "raised"
                  /\ exc' = c.res.exc
    /\ UNCHANGED <<web, shops, products, k, i, j, run, prev, ret>>

(* The prints of one shop line and the assertion between them: the name and
   the current price are written first, without a newline. *)
PrintShop ==
    /\ pc = "print"
    /\ LET shop == shops[products[i].shops[j][1]]
           p == prices[1]
       IN IF ~IsPair(p)
          THEN /\ pc' = "raised"
               /\ exc' = "KeyError"
               /\ UNCHANGED <<trace, j>>
          ELSE IF p.reg = None
          THEN /\ trace' = trace \o <<ShopEv(shop.name, p.cur), NlEv>>
               /\ pc' = "entry"
               /\ j' = j + 1
               /\ exc' = exc
          ELSE IF p.reg[1] > p.cur
          THEN /\ trace' = trace \o <<ShopEv(shop.name, p.cur), StattEv(p.reg[1])>>
               /\ pc' = "entry"
               /\ j' = j + 1
               /\ exc' = exc
          ELSE /\ trace' = Append(trace, ShopEv(shop.name, p.cur))
               /\ pc' = "raised"
               /\ exc' = "AssertionError"
               /\ j' = j
    /\ prices' = None
    /\ UNCHANGED <<web, shops, products, k, i, run, prev, ret>>

(* the shops of the product are exhausted: print() and the next product; a
   variant that forgets the separator follows *)
EndProductNoBlank ==
    /\ pc = "entry"
    /\ j > Len(products[i].shops)
    /\ trace' = trace
    /\ i' = i + 1
    /\ pc' = "product"
    /\ UNCHANGED <<web, shops, products, exc, k, j, prices, run, prev, ret>>

EndProduct ==
    /\ pc = "entry"
    /\ j > Len(products[i].shops)
    /\ trace' = Append(trace, BlankEv)
    /\ i' = i + 1
    /\ pc' = "product"
    /\ UNCHANGED <<web, shops, products, exc, k, j, prices, run, prev, ret>>

(* main(config) is invoked again with the same configuration object, after
   the previous invocation returned or raised. *)
MainAgain ==
    /\ pc \in {"done", "raised"}
    /\ run < MaxRuns
    /\ run' = run + 1
    /\ prev' = Some([pc |-> pc, exc |-> exc, out |-> Out(trace)])
    /\ pc' = "load"
    /\ exc' = ""
    /\ k' = 1
    /\ i' = 1
    /\ j' = 1
    /\ prices' = None
    /\ trace' = <<>>
    /\ UNCHANGED <<web, shops, products, ret>>

Next ==
    \/ LoadShop
    \/ Header
    \/ Return
    \/ CallCheck
    \/ PrintShop
    \/ EndProduct
    \/ MainAgain

Spec == Init /\ [][Next]_vars

----------------------------------------------------------------------------
(* Properties of main. *)

Terminal == pc \in {"done", "raised"}

(* the check_func string the configuration gave the shop *)
OrigName(id) == shops[id].check_func.v

(* index of the last call event of the trace, 0 when none *)
LastCall ==
    IF \E n \in DOMAIN trace : trace[n].e = "call"
    THEN CHOOSE n \in DOMAIN trace :
            /\ trace[n].e = "call"
            /\ \A m \in DOMAIN trace : trace[m].e = "call" => m <= n
    ELSE 0

(* C1 as stated: when main aborts on the pricing assertion, nothing has been
   printed for that shop item: no print follows the call of its
   extractor. *)
C1_Original ==
    (pc = "raised" /\ exc = "AssertionError") =>
        \A n \in DOMAIN trace : n > LastCall => ~IsPrint(trace[n])

(* C2 as stated: a shop is bound only to one of the five extractors; with any
   other configured name main raises the unknown-check-function error and
   leaves the shop unbound. *)
C2_Original ==
    \A id \in ShopIds :
        OrigName(id) \notin Extractors =>
            /\ shops[id].check_func.kind = "str"
            /\ pc \in {"load", "raised"}
            /\ pc = "raised" => exc = "ValueError: Check func not found"

SomeUnresolved == \E id \in ShopIds : OrigName(id) \notin GlobalNames

(* C3: when some shop's check_func name does not resolve, main never gets
   past loading the shops: it issues no fetch, prints nothing and leaves
   only by the unknown-check-function error. *)
C3_FailFast ==
    SomeUnresolved =>
        /\ trace = <<>>
        /\ pc \in {"load", "raised"}
        /\ pc = "raised" => exc = "ValueError: Check func not found"

C3_Witness ==
    /\ run = 1
    /\ pc = "raised"
    /\ shops["s1"].check_func = Obj("check_galaxus")
    /\ shops["s2"].check_func = Str("check_foo")
    /\ Len(products) = 2
    /\ \A n \in DOMAIN products :
          /\ products[n].shops # <<>>
          /\ \A m \in DOMAIN products[n].shops : products[n].shops[m][1] = "s1"

(* C4 as stated: a second invocation of main with the same configuration
   object ends as the first did and prints what the first printed. *)
C4_Original ==
    (run > 1 /\ Terminal) =>
        /\ Out(trace) = prev[1].out
        /\ pc = prev[1].pc

(* the pair the extractor returned for the shop line printed at n: the call
   and its fetch precede the line *)
ResultFor(n) == CallObj(Obj(trace[n - 2].s), trace[n - 2].t).res

Annotated(n) == n < Len(trace) /\ trace[n + 1].e = "statt"

(* C5 as stated: a printed shop line carries the annotation exactly when the
   extractor returned a present regular price, and on an annotated line the
   regular price exceeds the current price of the line. *)
C5_Original ==
    \A n \in DOMAIN trace :
        trace[n].e = "shop" =>
            /\ Annotated(n) <=> ResultFor(n).reg # None
            /\ Annotated(n) => trace[n + 1].n > trace[n].n

(* the pricing assertion fails on the pair *)
AssertFails(r) == r.reg # None /\ ~(r.reg[1] > r.cur)

(* C6: after a shop check that fails, nothing more happens in the
   invocation: the trace ends with the events of the failing call (and the
   start of its line when the assertion is what fails), and main has left
   with that error. *)
C6_NoFurther ==
    \A n \in DOMAIN trace :
        trace[n].e = "call" =>
            LET c == CallObj(Obj(trace[n].s), trace[n].t)
                tail == SubSeq(trace, n + 1, Len(trace))
            IN IF ~IsOk(c.res)
               THEN tail = c.evs /\ pc = "raised" /\ exc = c.res.exc
               ELSE IF ~IsPair(c.res)
               THEN /\ tail = c.evs
                    /\ pc \in {"print", "raised"}
                    /\ pc = "raised" => exc = "KeyError"
               ELSE IF AssertFails(c.res)
               THEN \/ tail = c.evs /\ pc = "print"
                    \/ /\ tail = c.evs \o <<ShopEv(trace[Len(trace)].s, c.res.cur)>>
                       /\ pc = "raised"
                       /\ exc = "AssertionError"
               ELSE TRUE

C6_Witness ==
    /\ run = 1
    /\ pc = "raised"
    /\ exc = "HTTPError"
    /\ i = 1
    /\ j = 1
    /\ Len(products) = 2
    /\ Len(products[1].shops) = 2
    /\ Len(products[2].shops) = 2
    /\ trace = <<HeaderEv("Widget"), CallEv(OrigName(products[1].shops[1][1]), "u_404"),
                 FetchEv("u_404")>>

(* the events of one (shop_id, url) entry whose check succeeds *)
EntryEvents(entry) ==
    LET f == Obj(OrigName(entry[1]))
        c == CallObj(f, entry[2])
    IN <<CallEv(f.v, entry[2])>> \o c.evs
       \o <<ShopEv(DisplayName(entry[1]), c.res.cur)>>
       \o <<IF c.res.reg = None THEN NlEv ELSE StattEv(c.res.reg[1])>>

RECURSIVE EntriesEvents(_)
EntriesEvents(es) ==
    IF es = <<>> THEN <<>>
    ELSE EntryEvents(Head(es)) \o EntriesEvents(Tail(es))

RECURSIVE ProductsEvents(_)
ProductsEvents(ps) ==
    IF ps = <<>> THEN <<>>
    ELSE <<HeaderEv(Head(ps).name)>> \o EntriesEvents(Head(ps).shops)
         \o <<BlankEv>> \o ProductsEvents(Tail(ps))

(* every shop name resolves and every entry's check succeeds *)
AllSucceed ==
    /\ \A id \in ShopIds : OrigName(id) \in GlobalNames
    /\ \A n \in DOMAIN products : \A m \in DOMAIN products[n].shops :
          LET e == products[n].shops[m]
              r == CallObj(Obj(OrigName(e[1])), e[2]).res
          IN IsOk(r) /\ IsPair(r) /\ ~AssertFails(r)

IsPrefix(a, b) == Len(a) <= Len(b) /\ a = SubSeq(b, 1, Len(a))

(* C7: in the first invocation on a configuration whose checks all succeed,
   the events are, product by product in list order, the header, then for
   each entry in order one call of the shop's extractor with the url
   followed by its one line, then one blank line; main returns with exactly
   these events. *)
C7_Trace ==
    (run = 1 /\ AllSucceed) =>
        /\ IsPrefix(trace, ProductsEvents(products))
        /\ pc # "raised"
        /\ pc = "done" => trace = ProductsEvents(products)

C7_Witness ==
    /\ run = 1
    /\ pc = "done"
    /\ AllSucceed
    /\ Len(products) = 2
    /\ Len(products[1].shops) = 2
    /\ Len(products[2].shops) = 2
    /\ OrigName("s1") # OrigName("s2")

----------------------------------------------------------------------------
(* check_galaxus *)

BothMetaNumeric ==
    /\ web[U].status = 200
    /\ web[U].amount # None
    /\ web[U].standard # None
    /\ ParseFloat(web[U].amount[1]) # None
    /\ ParseFloat(web[U].standard[1]) # None

(* C8 as stated: on a document that has both meta tags with numeric content,
   check_galaxus returns a regular price strictly greater than the current
   price. *)
C8_Original ==
    (ret # None /\ BothMetaNumeric) =>
        /\ IsOk(ret[1])
        /\ ret[1].reg # None
        /\ ret[1].reg[1] > ret[1].cur

(* C8 amended: on such a document check_galaxus returns the number of the
   amount tag as current and the number of the standard_amount tag as a
   present regular price, whatever their order; regular exceeds current
   exactly when the document's standard amount exceeds its amount. *)
C8_ReturnsBothAsFound ==
    (ret # None /\ BothMetaNumeric) =>
        /\ IsOk(ret[1])
        /\ ret[1].cur = ParseFloat(web[U].amount[1])[1]
        /\ ret[1].reg = Some(ParseFloat(web[U].standard[1])[1])

C8_Witness ==
    /\ ret # None
    /\ BothMetaNumeric
    /\ web[U].amount = Some("72.4")
    /\ web[U].standard = Some("49")
    /\ ret[1] = Ok(7240, Some(4900))

----------------------------------------------------------------------------
(* check_transa *)

(* Indices of the lines of the page that match the pattern with the key. *)
LinesWith(key) ==
    {n \in DOMAIN web[U].text :
        /\ MatchLine(web[U].text[n]) # None
        /\ MatchLine(web[U].text[n])[1][1] = key}

Last(S) == CHOOSE n \in S : \A m \in S : m <= n

(* The amount text of line n, a matching line. *)
AmountOf(n) == MatchLine(web[U].text[n])[1][2]

(* C9 as stated: with no promo line check_transa fails; otherwise it returns
   the amount of the last promo line, with the amount of the last base line
   when a line matches the base pattern and with an absent regular price
   when none does. *)
C9_Original ==
    ret # None =>
        IF LinesWith("promo") = {} THEN ~IsOk(ret[1])
        ELSE /\ IsOk(ret[1])
             /\ Some(ret[1].cur) = ParseFloat(AmountOf(Last(LinesWith("promo"))))
             /\ IF LinesWith("base") = {} THEN ret[1].reg = None
                ELSE ret[1].reg = ParseFloat(AmountOf(Last(LinesWith("base"))))

SomeAmountUnparsable ==
    \E n \in LinesWith("promo") \cup LinesWith("base") :
        ParseFloat(AmountOf(n)) = None

(* C9 amended: when some line matching the base or the promo pattern carries
   an amount float() rejects, check_transa fails with that ValueError and
   returns no value; otherwise it behaves as C9 states. *)
C9_LastMatchWins ==
    ret # None =>
        IF SomeAmountUnparsable THEN ret[1] = Raise("ValueError")
        ELSE IF LinesWith("promo") = {} THEN ret[1] = Raise("KeyError")
        ELSE /\ IsOk(ret[1])
             /\ Some(ret[1].cur) = ParseFloat(AmountOf(Last(LinesWith("promo"))))
             /\ IF LinesWith("base") = {} THEN ret[1].reg = None
                ELSE ret[1].reg = ParseFloat(AmountOf(Last(LinesWith("base"))))

C9_Witness ==
    /\ ret # None
    /\ web[U].text = <<"  promo: 'CHF 629.90',", "  base: '',",
                       "  promo: 'CHF 379.90',">>
    /\ ret[1] = Ok(37990, None)

----------------------------------------------------------------------------
(* check_intersport *)

HasPrice ==
    /\ web[U].status = 200
    /\ web[U].summary # None
    /\ web[U].summary[1] # None

Children == web[U].summary[1][1]

BothDelIns ==
    /\ FindChild(Children, "del") # None
    /\ FindChild(Children, "ins") # None

InsAmount == FindChild(Children, "ins")[1].amount

DelAmount == FindChild(Children, "del")[1].amount

(* The amount element has a text whose part before the separator is not
   exactly CHF. *)
OtherPrefix(amount) == amount # None /\ SplitHead(amount[1]) # "CHF"

ChfPrefix(amount) == amount # None /\ SplitHead(amount[1]) = "CHF"

(* Every amount handed back was read from an element checked to be CHF. *)
ReturnedAmountsChecked ==
    (ret # None /\ HasPrice /\ IsOk(ret[1])) =>
        IF BothDelIns THEN ChfPrefix(InsAmount) /\ ChfPrefix(DelAmount)
        ELSE ChfPrefix(FindAmount(Children))

SomeOtherPrefix ==
    IF BothDelIns THEN OtherPrefix(InsAmount) \/ OtherPrefix(DelAmount)
    ELSE OtherPrefix(FindAmount(Children))

(* C10 as stated: every returned amount comes from an element checked to be
   CHF, and when the inserted, the deleted or the single price element has
   another currency prefix, check_intersport fails with an assertion
   error. *)
C10_Original ==
    /\ ReturnedAmountsChecked
    /\ (ret # None /\ HasPrice /\ SomeOtherPrefix) =>
           ret[1] = Raise("AssertionError")

(* C10 amended: every returned amount comes from an element checked to be
   CHF, and another currency prefix on the inserted, the deleted or the
   single price element makes check_intersport fail and return no value;
   the failure is the assertion error when the element is the inserted or
   the single one, and for the deleted element when the inserted element,
   read first, yields its price; otherwise the inserted element's own error
   is raised before the deleted element is looked at. *)
C10_PrefixChecked ==
    /\ ReturnedAmountsChecked
    /\ (ret # None /\ HasPrice /\ SomeOtherPrefix) => ~IsOk(ret[1])
    /\ (ret # None /\ HasPrice /\ BothDelIns /\ OtherPrefix(InsAmount)) =>
           ret[1] = Raise("AssertionError")
    /\ (ret # None /\ HasPrice /\ ~BothDelIns
            /\ OtherPrefix(FindAmount(Children))) =>
           ret[1] = Raise("AssertionError")
    /\ (ret # None /\ HasPrice /\ BothDelIns /\ OtherPrefix(DelAmount)) =>
           IF IsOk(_get_price(InsAmount)) THEN ret[1] = Raise("AssertionError")
           ELSE ret[1] = _get_price(InsAmount)

C10_Witness ==
    /\ ret # None
    /\ HasPrice
    /\ BothDelIns
    /\ InsAmount = Some("CHF~299.90")
    /\ DelAmount = Some("EUR~379.00")
    /\ ret[1] = Raise("AssertionError")

====
